---- MODULE Spec2Model ----
(***************************************************************************)
(* hackwatch: the incremental sweep of one Geekhack board (main.py,        *)
(* try_func and HackWatch) over the SQLite-backed baseline                 *)
(* (data_object.py, BoardStorage).                                         *)
(*                                                                         *)
(* The forum is the environment: `board` is the thread index the server    *)
(* holds, newest activity first, cut into pages of RowsPerPage rows.  The  *)
(* program state is the committed table (db), the connection and its       *)
(* uncommitted view (conn, txn), the in-memory mirror (table_dict), the    *)
(* HTTP session, and the position of try_func (pc, post_num, posts).       *)
(* trace, first_obs and stable_from are history variables: they record     *)
(* what the sweep did and are never read by an action's guard.             *)
(***************************************************************************)
EXTENDS Integers, Sequences, FiniteSets, TLC

\* ---------------------------------------------------------------- bounds
MaxPages == 2        \* largest page number the board's page navigation shows
MaxSweeps == 2       \* runs of try_func for this board
MaxEdits == 1        \* changes the forum makes to the index
RowsPerPage == 2     \* rows the server puts on one index page

\* ------------------------------------------------------ program constants
PageStep == 50       \* range(0, pagecounts, 50) and int(...)*50

Ids == {1, 2}
MaxBoard == Cardinality(Ids) + 1   \* rows of the whole thread index: every thread and one row more
Titles == {"t1", "t2"}
Author == "op"
Replier == "guest"

\* columns_post: the columns compared against a PostData object, in order
columns_post == <<"url", "title", "author", "replies", "reply_timestamp", "reply_author">>

ColumnSet == {columns_post[i] : i \in 1..Len(columns_post)}

\* ------------------------------------------------------------ the forum
\* One row of the index table: a thread, or a row whose markup the parser
\* does not accept (a pinned thread has class "subject stickybg2").
Pinned == [kind |-> "pinned"]

Thread(id, title, replies) == [kind |-> "thread", id |-> id, title |-> title, replies |-> replies]

FreshThreads == {Thread(id, "t1", 0) : id \in Ids}

SeqsUpTo(S, n) == UNION {[1..k -> S] : k \in 0..n}

ThreadIds(b) == {b[i].id : i \in {j \in 1..Len(b) : b[j].kind = "thread"}}

NumThreads(b) == Cardinality({j \in 1..Len(b) : b[j].kind = "thread"})

\* a thread is listed once in the index
WellFormed(b) == NumThreads(b) = Cardinality(ThreadIds(b))

Boards == {b \in SeqsUpTo(FreshThreads \cup {Pinned}, MaxBoard) : WellFormed(b)}

\* the rows the server returns for the index page at offset post_num
PageRows(b, post_num) ==
    LET first == (post_num \div PageStep) * RowsPerPage + 1
        last == IF first + RowsPerPage - 1 < Len(b) THEN first + RowsPerPage - 1 ELSE Len(b)
    IN  IF first > Len(b) THEN <<>> ELSE SubSeq(b, first, last)

\* ------------------------------------------------- main.py: row parsing
\* _parse_title_author_id_url: the clean URL carries the topic id alone
clean_url(topic_id) == <<"index.php?topic", topic_id>>

\* _parse_reply_time_and_author: the last-post cell, read to the second.
\* The opening post is the last post of a thread without replies.
reply_timestamp_of(row) == row.replies

reply_author_of(row) == IF row.replies = 0 THEN Author ELSE Replier

\* PostData as _build_postdata fills it; first_seen is datetime.now()
PostData(row, t) ==
    [id |-> row.id,
     url |-> clean_url(row.id),
     title |-> row.title,
     author |-> Author,
     replies |-> row.replies,
     reply_timestamp |-> reply_timestamp_of(row),
     reply_author |-> reply_author_of(row),
     first_seen |-> t]

\* _build_postdata returns Optional[PostData]: <<>> is None.  A row the
\* helpers cannot read raises inside the try and yields None.
build_postdata(row, t) == IF row.kind = "thread" THEN <<PostData(row, t)>> ELSE <<>>

RECURSIVE scrape_rows_until_fault(_, _)
\* seeded fault: the first row that does not parse ends the page
scrape_rows_until_fault(rows, t) ==
    IF rows = <<>> \/ build_postdata(Head(rows), t) = <<>> THEN <<>>
    ELSE build_postdata(Head(rows), t) \o scrape_rows_until_fault(Tail(rows), t)

RECURSIVE scrape_rows_reversed(_, _)
\* seeded fault: the posts are returned last row first
scrape_rows_reversed(rows, t) ==
    IF rows = <<>> THEN <<>>
    ELSE scrape_rows_reversed(Tail(rows), t) \o build_postdata(Head(rows), t)

RECURSIVE scrape_rows(_, _)
\* scrape_page_text, lines 44-50: the posts of the rows that parsed, in order
scrape_rows(rows, t) ==
    IF rows = <<>> THEN <<>>
    ELSE build_postdata(Head(rows), t) \o scrape_rows(Tail(rows), t)

\* ------------------------------------------- data_object.py: BoardStorage
\* sqlite3 binds a datetime parameter as its ISO text "YYYY-MM-DD HH:MM:SS";
\* a DATETIME column is handed back as that text (no converter is
\* registered under that declared type)
adapt_datetime(t) == <<"iso", t>>

\* seeded fault: the stored text is read back one second off
strptime_iso_shifted(text) == text[2] + 1

\* datetime.strptime(text, "%Y-%m-%d %H:%M:%S")
strptime_iso(text) == text[2]

\* the value sqlite3 stores for column col of a PostData parameter
bind(col, value) ==
    IF col \in {"reply_timestamp", "first_seen"} THEN adapt_datetime(value) ELSE value

\* _postdata_factory: the seven selected columns as a PostData, the
\* timestamp parsed back, first_seen left at its default None
postdata_factory(id, row) ==
    [id |-> id,
     url |-> row.url,
     title |-> row.title,
     author |-> row.author,
     replies |-> row.replies,
     reply_timestamp |-> strptime_iso(row.reply_timestamp),
     reply_author |-> row.reply_author,
     first_seen |-> "None"]

\* seeded fault: the working copy starts empty whatever the table holds
table_to_dict_empty(table) == <<>>

\* _table_to_dict: asdict() of every row, keyed by id
table_to_dict(table) == [id \in DOMAIN table |-> postdata_factory(id, table[id])]

\* seeded fault: every compared column goes into the UPDATE
update_columns_all(post, existing_post) ==
    IF \E i \in 1..Len(columns_post) : post[columns_post[i]] # existing_post[columns_post[i]]
    THEN columns_post
    ELSE <<>>

\* seeded fault: the title is left out of the comparison
update_columns_notitle(post, existing_post) ==
    SelectSeq(columns_post, LAMBDA col : col # "title" /\ post[col] # existing_post[col])

\* save_or_update_row, lines 121-130: the columns whose observed value
\* differs from the working copy, in columns_post order
update_columns(post, existing_post) ==
    SelectSeq(columns_post, LAMBDA col : post[col] # existing_post[col])

SeqToSet(s) == {s[i] : i \in 1..Len(s)}

\* seeded fault: the UPDATE sets first_seen as the INSERT does
update_row_first_seen(row, post, cols, t) ==
    [c \in DOMAIN row |->
        IF c \in SeqToSet(cols) \cup {"first_seen"} THEN bind(c, post[c])
        ELSE IF c = "last_updated" THEN t
        ELSE row[c]]

\* lines 132-138: UPDATE t SET <differing columns>, last_updated =
\* CURRENT_TIMESTAMP WHERE id = ?
update_row(row, post, cols, t) ==
    [c \in DOMAIN row |->
        IF c \in SeqToSet(cols) THEN bind(c, post[c])
        ELSE IF c = "last_updated" THEN t
        ELSE row[c]]

\* seeded fault: the working copy takes the new title and nothing else
update_dict_title_only(existing_post, post) ==
    [c \in DOMAIN existing_post |->
        IF c = "title" THEN post[c] ELSE existing_post[c]]

\* lines 142-143: every column of columns_post is assigned in the working copy
update_dict(existing_post, post) ==
    [c \in DOMAIN existing_post |->
        IF c \in ColumnSet THEN post[c] ELSE existing_post[c]]

\* lines 153-158: INSERT of the eight named columns; last_updated and
\* read_by_scan take the schema defaults of _init_db
insert_row(post, t) ==
    [url |-> bind("url", post.url),
     title |-> bind("title", post.title),
     author |-> bind("author", post.author),
     replies |-> bind("replies", post.replies),
     reply_timestamp |-> bind("reply_timestamp", post.reply_timestamp),
     reply_author |-> bind("reply_author", post.reply_author),
     first_seen |-> bind("first_seen", post.first_seen),
     last_updated |-> t,
     read_by_scan |-> 0]

\* lines 161-163: the new working-copy entry holds the six columns only
insert_dict(post) == [c \in ColumnSet |-> post[c]]

\* the classification save_or_update_row makes of a post
classify(dict, post) ==
    IF post.id \notin DOMAIN dict THEN "New"
    ELSE IF update_columns(post, dict[post.id]) = <<>> THEN "Unchanged"
    ELSE "Changed"

\* ------------------------------------------------------------------ state
VARIABLES
    board,        \* the forum's thread index (environment)
    db,           \* committed rows of the board's table, id -> row
    conn,         \* BoardStorage.conn: "none", "open", "closed"
    txn,          \* the table as the open connection sees it (pending writes included)
    table_dict,   \* BoardStorage.table_dict, id -> dict
    session,      \* HackWatch.session: "none", "open", "closed"
    pc,           \* where try_func stands
    pagecounts,   \* Optional[int]: <<>> is None
    post_num,     \* loop variable of range(0, pagecounts, 50)
    posts,        \* the posts of the current page still to be saved
    now,          \* the wall clock
    sweeps,       \* runs of try_func started so far
    edits,        \* changes the forum has made to the index
    trace,        \* history: what this run requested, saved and printed
    first_obs,    \* history: id -> first_seen of the post that was inserted
    stable_from,  \* history: the run since whose start the index has not changed
    clean         \* history: per run, no request and no statement has failed

vars == <<board, db, conn, txn, table_dict, session, pc, pagecounts, post_num,
          posts, now, sweeps, edits, trace, first_obs, stable_from, clean>>

Ev(ev, page, d) == [ev |-> ev, page |-> page, d |-> d]

Terminal == {"idle", "returned", "raised"}

\* a fresh hackwatch.db, nothing running
Init ==
    /\ board \in Boards
    /\ db = <<>>
    /\ conn = "none"
    /\ txn = <<>>
    /\ table_dict = <<>>
    /\ session = "none"
    /\ pc = "idle"
    /\ pagecounts = <<>>
    /\ post_num = 0
    /\ posts = <<>>
    /\ now = 0
    /\ sweeps = 0
    /\ edits = 0
    /\ trace = <<>>
    /\ first_obs = <<>>
    /\ stable_from = 1
    /\ clean = <<>>

\* ------------------------------------------------------- main.py: try_func
\* asyncio.run(try_func(...)): HackWatch.__init__ and __aenter__ (lines
\* 17-29, 183-186); BoardStorage is not constructed yet
StartSweep ==
    /\ pc \in Terminal
    /\ sweeps < MaxSweeps
    /\ sweeps' = sweeps + 1
    \* a run starts later than every moment of the run before it, which
    \* slept at most MaxPages - 1 times
    /\ now' = (sweeps + 1) * MaxPages
    /\ session' = "open"
    /\ conn' = "none"
    /\ table_dict' = <<>>
    /\ pagecounts' = <<>>
    /\ post_num' = 0
    /\ posts' = <<>>
    /\ trace' = <<>>
    /\ clean' = Append(clean, TRUE)
    /\ pc' = "count"
    /\ UNCHANGED <<board, db, txn, edits, first_obs, stable_from>>

Failed == [clean EXCEPT ![sweeps] = FALSE]

\* seeded fault: __exit__ closes the connection without commit
Release_nocommit(t) ==
    /\ db' = db
    /\ txn' = db
    /\ conn' = "closed"
    /\ session' = "closed"

\* seeded fault: __exit__ commits and leaves the connection open
Release_noclose(t) ==
    /\ db' = t
    /\ txn' = t
    /\ conn' = "open"
    /\ session' = "closed"

\* BoardStorage.__exit__ then HackWatch.__aexit__: what leaving both
\* with-blocks does to the table `t` the connection holds
Release(t) ==
    /\ db' = t
    /\ txn' = t
    /\ conn' = "closed"
    /\ session' = "closed"

\* seeded fault: the loop steps over a page
next_post_num_skip(n) == n + 2 * PageStep

\* the offset the for statement takes after post_num
next_post_num(n) == n + PageStep

\* seeded fault: the next page is requested without the pacing sleep
Continue_nosleep(t, tr) ==
    IF next_post_num(post_num) < pagecounts[1]
    THEN /\ post_num' = next_post_num(post_num)
         /\ pc' = "fetch"
         /\ trace' = tr
         /\ txn' = t
         /\ UNCHANGED <<db, conn, session>>
    ELSE /\ post_num' = post_num
         /\ pc' = "returned"
         /\ trace' = Append(tr, Ev("print", post_num, [msg |-> "All pages processed"]))
         /\ Release(t)

\* the for statement asks range() for the next value: the next page after
\* pacing, or line 229 and the end of both with-blocks
Continue(t, tr) ==
    IF next_post_num(post_num) < pagecounts[1]
    THEN /\ post_num' = next_post_num(post_num)
         /\ pc' = "sleep"
         /\ trace' = tr
         /\ txn' = t
         /\ UNCHANGED <<db, conn, session>>
    ELSE /\ post_num' = post_num
         /\ pc' = "returned"
         /\ trace' = Append(tr, Ev("print", post_num, [msg |-> "All pages processed"]))
         /\ Release(t)

\* seeded fault: a page without posts ends the run
OnNoPosts_stop(t, tr) ==
    /\ post_num' = post_num
    /\ pc' = "returned"
    /\ trace' = Append(tr, Ev("print", post_num, [msg |-> "No posts found"]))
    /\ Release(t)

\* lines 210-212: nothing to save on this page, on to the next
OnNoPosts(t, tr) ==
    Continue(t, Append(tr, Ev("print", post_num, [msg |-> "No posts found"])))

\* seeded fault: the handler prints and raises again
OnPageError_reraise(t, tr) ==
    /\ post_num' = post_num
    /\ pc' = "raised"
    /\ trace' = Append(tr, Ev("print", post_num, [msg |-> "Error processing page"]))
    /\ Release(t)

\* lines 224-227: whatever the page raised is printed, on to the next page
OnPageError(t, tr) ==
    Continue(t, Append(tr, Ev("print", post_num, [msg |-> "Error processing page"])))

\* seeded fault: a page count of None is taken for no pages at all
GetPageCount_none_is_zero ==
    /\ pc = "count"
    /\ \/ /\ pc' = "raised"
          /\ session' = "closed"
          /\ trace' = Append(trace, Ev("count", 0, [result |-> "raise"]))
          /\ clean' = Failed
          /\ UNCHANGED <<db, conn, txn, table_dict, pagecounts>>
       \/ /\ pc' = "returned"
          /\ table_dict' = table_to_dict(db)
          /\ trace' = Append(Append(trace, Ev("count", 0, [result |-> "None"])),
                             Ev("print", 0, [msg |-> "All pages processed"]))
          /\ clean' = Failed
          /\ Release(db)
          /\ UNCHANGED pagecounts
       \/ \E n \in 1..MaxPages :
          /\ pagecounts' = <<n * PageStep>>
          /\ conn' = "open"
          /\ txn' = db
          /\ table_dict' = table_to_dict(db)
          /\ pc' = "fetch"
          /\ trace' = Append(trace, Ev("count", 0, [result |-> "pages"]))
          /\ UNCHANGED <<db, session, clean>>
    /\ UNCHANGED <<board, post_num, posts, now, sweeps, edits, first_obs, stable_from>>

\* lines 188-193: await get_page_count, enter BoardStorage, evaluate range()
GetPageCount ==
    /\ pc = "count"
    /\ \/ \* pagenav missing or without a last-page link: lines 65-67 raise,
          \* the exception leaves try_func through __aexit__ alone
          /\ pc' = "raised"
          /\ session' = "closed"
          /\ trace' = Append(trace, Ev("count", 0, [result |-> "raise"]))
          /\ clean' = Failed
          /\ UNCHANGED <<db, conn, txn, table_dict, pagecounts>>
       \/ \* the landing page was not fetched: get_page_count returns None,
          \* BoardStorage is entered, range(0, None, 50) raises TypeError
          /\ pc' = "raised"
          /\ table_dict' = table_to_dict(db)
          /\ trace' = Append(trace, Ev("count", 0, [result |-> "None"]))
          /\ clean' = Failed
          /\ Release(db)
          /\ UNCHANGED pagecounts
       \/ \E n \in 1..MaxPages :
          /\ pagecounts' = <<n * PageStep>>
          /\ conn' = "open"
          /\ txn' = db
          /\ table_dict' = table_to_dict(db)
          /\ pc' = "fetch"
          /\ trace' = Append(trace, Ev("count", 0, [result |-> "pages"]))
          /\ UNCHANGED <<db, session, clean>>
    /\ UNCHANGED <<board, post_num, posts, now, sweeps, edits, first_obs, stable_from>>

\* lines 195-197: await asyncio.sleep(3) before every page but the first
Sleep ==
    /\ pc = "sleep"
    /\ pc' = "fetch"
    /\ now' = now + 1
    /\ trace' = Append(trace, Ev("sleep", post_num, [secs |-> 3]))
    /\ UNCHANGED <<board, db, conn, txn, table_dict, session, pagecounts, post_num,
                   posts, sweeps, edits, first_obs, stable_from, clean>>

\* lines 205-214: scrape_page_text.  _get_page_content returns None on a
\* network error, a timeout or a status other than 200, and scrape_page_text
\* then returns [], as it does for a page without a parseable row.
ScrapePage ==
    /\ pc = "fetch"
    /\ \E ok \in BOOLEAN :
        LET rows == IF ok THEN PageRows(board, post_num) ELSE <<>>
            found == scrape_rows(rows, now)
            tr == Append(trace, Ev("get", post_num,
                                   [ok |-> ok, at |-> now, rows |-> rows, posts |-> found]))
        IN  /\ clean' = IF ok THEN clean ELSE Failed
            /\ IF found = <<>>
               THEN /\ posts' = <<>>
                    /\ OnNoPosts(txn, tr)
               ELSE /\ posts' = found
                    /\ pc' = "rows"
                    /\ trace' = tr
                    /\ UNCHANGED <<db, conn, txn, session, post_num>>
    /\ UNCHANGED <<board, table_dict, pagecounts, now, sweeps, edits, first_obs, stable_from>>

\* the columns named by the statement save_or_update_row executes
statement_columns(dict, post, cls) ==
    IF cls = "New" THEN <<"id">> \o columns_post \o <<"first_seen">>
    ELSE IF cls = "Changed"
    THEN update_columns(post, dict[post.id]) \o <<"last_updated">>
    ELSE <<>>

\* seeded fault: the UPDATE changes no row
execute_insert_only(table, dict, post, cls, t) ==
    IF cls = "New" THEN (post.id :> insert_row(post, t)) @@ table ELSE table

\* the statement save_or_update_row executes on the connection
execute(table, dict, post, cls, t) ==
    IF cls = "New" THEN (post.id :> insert_row(post, t)) @@ table
    ELSE IF cls = "Changed"
    THEN [table EXCEPT ![post.id] =
            update_row(@, post, update_columns(post, dict[post.id]), t)]
    ELSE table

\* seeded fault: table_dict stays as it was loaded
remember_nothing(dict, post, cls) == dict

\* the assignment save_or_update_row makes to table_dict
remember(dict, post, cls) ==
    IF cls = "New" THEN (post.id :> insert_dict(post)) @@ dict
    ELSE IF cls = "Changed"
    THEN [dict EXCEPT ![post.id] = update_dict(@, post)]
    ELSE dict

\* seeded fault: table_dict is assigned before conn.execute
dict_after_always(ok, dict, post, cls) == remember(dict, post, cls)

\* table_dict is assigned after conn.execute (lines 138-143, 153-163): a
\* statement that raises leaves save_or_update_row before the assignment
dict_after(ok, dict, post, cls) == IF ok THEN remember(dict, post, cls) ELSE dict

\* seeded fault: save_or_update_row returns False on every path
no_update_needed_never(cls) == FALSE

\* seeded fault: True is returned for every id the working copy holds
no_update_needed_if_known(cls) == cls # "New"

\* the value save_or_update_row returns: lines 145, 148, 165
no_update_needed(cls) == cls = "Unchanged"

\* what the trace keeps of one call of save_or_update_row: the post, the
\* working-copy entry it was compared with (<<>> when absent), the
\* classification, the statement's columns and whether the statement ran
SaveEvent(post, cls, ok) ==
    Ev("save", post_num,
       [post |-> post,
        had |-> IF post.id \in DOMAIN table_dict THEN <<table_dict[post.id]>> ELSE <<>>,
        cls |-> cls,
        set |-> statement_columns(table_dict, post, cls),
        ok |-> ok])

\* lines 217-227: one turn of `for post in posts`.  conn.execute either
\* runs or raises sqlite3.Error; the error is no KeyError, so it leaves
\* save_or_update_row and is caught at line 224.
SaveRow ==
    /\ pc = "rows"
    /\ posts # <<>>
    /\ LET post == Head(posts)
           cls == classify(table_dict, post)
       IN  \E ok \in (IF cls = "Unchanged" THEN {TRUE} ELSE BOOLEAN) :
           LET tr == Append(trace, SaveEvent(post, cls, ok))
               t == IF ok THEN execute(txn, table_dict, post, cls, now) ELSE txn
           IN  /\ table_dict' = dict_after(ok, table_dict, post, cls)
               /\ first_obs' = IF ok /\ cls = "New" /\ post.id \notin DOMAIN first_obs
                               THEN (post.id :> post.first_seen) @@ first_obs
                               ELSE first_obs
               /\ clean' = IF ok THEN clean ELSE Failed
               /\ IF ~ok
                  THEN /\ posts' = <<>>
                       /\ OnPageError(t, tr)
                  ELSE IF no_update_needed(cls)
                  THEN /\ posts' = <<>>
                       /\ pc' = "returned"
                       /\ trace' = Append(tr, Ev("print", post_num, [msg |-> "Exiting at page"]))
                       /\ Release(t)
                       /\ UNCHANGED post_num
                  ELSE IF Tail(posts) = <<>>
                  THEN /\ posts' = <<>>
                       /\ Continue(t, tr)
                  ELSE /\ posts' = Tail(posts)
                       /\ txn' = t
                       /\ trace' = tr
                       /\ UNCHANGED <<db, conn, session, pc, post_num>>
    /\ UNCHANGED <<board, pagecounts, now, sweeps, edits, stable_from>>

\* ---------------------------------------------------- the forum changes
MoveToFront(b, i) ==
    <<b[i]>> \o SubSeq(b, 1, i - 1) \o SubSeq(b, i + 1, Len(b))

\* somebody replies to thread i: it collects a reply and moves to the top
Reply(b, i) ==
    MoveToFront([b EXCEPT ![i] = Thread(@.id, @.title, @.replies + 1)], i)

\* the author renames thread i: the row stays where it is
Retitle(b, i, title) == [b EXCEPT ![i] = Thread(@.id, title, @.replies)]

\* a thread is opened: a new row at the top
NewThread(b, id) == <<Thread(id, "t1", 0)>> \o b

\* the index changes between two requests of a run, or between two runs
RemoteUpdate ==
    /\ edits < MaxEdits
    /\ \/ pc = "sleep"
       \/ pc \in Terminal /\ sweeps < MaxSweeps
    /\ \/ \E i \in 1..Len(board) :
            /\ board[i].kind = "thread"
            /\ board' = Reply(board, i)
       \/ \E i \in 1..Len(board), title \in Titles :
            /\ board[i].kind = "thread"
            /\ board[i].title # title
            /\ board' = Retitle(board, i, title)
       \/ \E id \in Ids \ ThreadIds(board) :
            /\ Len(board) < MaxBoard
            /\ board' = NewThread(board, id)
    /\ stable_from' = sweeps + 1
    /\ edits' = edits + 1
    /\ UNCHANGED <<db, conn, txn, table_dict, session, pc, pagecounts, post_num,
                   posts, now, sweeps, trace, first_obs, clean>>

Next == StartSweep \/ GetPageCount \/ Sleep \/ ScrapePage \/ SaveRow \/ RemoteUpdate

Spec == Init /\ [][Next]_vars

\* asyncio.run drives try_func to its end: every await (the request with
\* its 30 s timeout, the 3 s sleep) completes
FairSpec == Spec /\ WF_vars(GetPageCount \/ Sleep \/ ScrapePage \/ SaveRow)

\* ------------------------------------------------------ reading the trace
IsSave(e) == e.ev = "save"

IsGet(e) == e.ev = "get"

IsPrint(e, msg) == e.ev = "print" /\ e.d.msg = msg

Saves == SelectSeq(trace, IsSave)

Gets == SelectSeq(trace, IsGet)

\* the run stands right after event i of the trace, the page loop having
\* moved on from page p: to the pacing sleep and the request for p + 50,
\* or, p being the last page, to line 229
Advanced(i, p) ==
    /\ pc # "raised"
    /\ IF p + PageStep < pagecounts[1]
       THEN /\ Len(trace) = i => pc = "sleep" /\ post_num = p + PageStep
            /\ Len(trace) > i => trace[i + 1].ev = "sleep" /\ trace[i + 1].page = p + PageStep
            /\ Len(trace) > i + 1 => IsGet(trace[i + 2]) /\ trace[i + 2].page = p + PageStep
       ELSE /\ Len(trace) = i + 1
            /\ IsPrint(trace[i + 1], "All pages processed")
            /\ pc = "returned"

\* C1: the first call of save_or_update_row that classifies a post as
\* Unchanged ends the run: the call is the last of the trace, followed only
\* by the exit message of its page, nothing is left to save, no request
\* follows, and try_func has returned with both with-blocks left.
C1_EarlyTermination ==
    \A i \in 1..Len(trace) :
        (IsSave(trace[i]) /\ trace[i].d.cls = "Unchanged") =>
            /\ pc = "returned"
            /\ posts = <<>>
            /\ conn = "closed"
            /\ session = "closed"
            /\ Len(trace) = i + 1
            /\ IsPrint(trace[i + 1], "Exiting at page")
            /\ trace[i + 1].page = trace[i].page
            /\ post_num = trace[i].page

\* the run stopped at an Unchanged post although its page held a later
\* post and a later page was within the page count
C1_Witness ==
    /\ pc = "returned"
    /\ post_num + PageStep < pagecounts[1]
    /\ \E i \in 1..Len(trace) :
        /\ IsSave(trace[i])
        /\ trace[i].d.cls = "Unchanged"
        /\ \E g \in 1..Len(trace) :
            /\ IsGet(trace[g])
            /\ trace[g].page = trace[i].page
            /\ Len(trace[g].d.posts) > i - g

\* the run in progress and the one before it met no failed request and no
\* failed statement, and the index has not changed since the earlier began
TwiceInSuccession ==
    /\ sweeps >= 2
    /\ stable_from < sweeps
    /\ clean[sweeps]
    /\ clean[sweeps - 1]

\* C2: a run that follows a run over the same, unchanged index (no request
\* or statement failing in either, page 0 showing a post) writes nothing:
\* it requests page 0 only, calls save_or_update_row once, for the first
\* post of page 0, which is Unchanged and executes no statement, the
\* connection holds no pending write, and the run ends there with the exit
\* message of page 0.
C2_Idempotence ==
    (TwiceInSuccession /\ scrape_rows(PageRows(board, 0), now) # <<>>) =>
        /\ txn = db
        /\ \A i \in 1..Len(trace) :
            /\ IsGet(trace[i]) => trace[i].page = 0
            /\ IsSave(trace[i]) =>
                /\ trace[i].page = 0
                /\ trace[i].d.cls = "Unchanged"
                /\ trace[i].d.set = <<>>
                /\ trace[i].d.post = Head(scrape_rows(PageRows(board, 0), trace[i].d.post.first_seen))
                /\ IsGet(trace[i - 1])
        /\ pc \in {"rows", "returned"} => Len(Gets) = 1
        /\ pc = "returned" =>
            /\ Len(Saves) = 1
            /\ IsPrint(trace[Len(trace)], "Exiting at page")
            /\ post_num = 0

\* the second run over an unchanged index has ended; the first run had
\* inserted the post the second one found Unchanged
C2_Witness ==
    /\ TwiceInSuccession
    /\ pc = "returned"
    /\ Len(Saves) = 1
    /\ Saves[1].d.cls = "Unchanged"
    /\ Saves[1].d.post.id \in DOMAIN first_obs
    /\ Len(board) > 1

\* no call of save_or_update_row was made for page p
NothingSavedOn(p) == \A j \in 1..Len(trace) : IsSave(trace[j]) => trace[j].page # p

\* the pages were requested in order, each once, none left out
PagesInOrder == \A g \in 1..Len(Gets) : Gets[g].page = (g - 1) * PageStep

\* the run has returned and what it wrote is committed: the table on disk
\* is the table the connection held, and for each id it shows the columns
\* of the last post whose statement ran
Persisted ==
    pc = "returned" =>
        /\ db = txn
        /\ \A i \in 1..Len(trace) :
            (/\ IsSave(trace[i])
             /\ trace[i].d.ok
             /\ trace[i].d.cls # "Unchanged"
             /\ \A j \in (i + 1)..Len(trace) :
                    IsSave(trace[j]) /\ trace[j].d.ok => trace[j].d.post.id # trace[i].d.post.id) =>
                /\ trace[i].d.post.id \in DOMAIN db
                /\ \A c \in ColumnSet :
                    db[trace[i].d.post.id][c] = bind(c, trace[i].d.post[c])

\* C3: a request that fails (network error, timeout, status other than 200)
\* leaves its page without any call of save_or_update_row, does not end
\* the run with an exception, and is followed by the pacing sleep and the
\* request for the next page (or, on the last page, by the end of the
\* run); the pages are requested in order with none left out, a page that
\* shows posts has them saved, and what the run wrote is committed when it
\* returns.
C3_FaultIsolation ==
    \A i \in 1..Len(trace) :
        (IsGet(trace[i]) /\ ~trace[i].d.ok) =>
            /\ NothingSavedOn(trace[i].page)
            /\ Len(trace) > i
            /\ IsPrint(trace[i + 1], "No posts found")
            /\ Advanced(i + 1, trace[i].page)
            /\ PagesInOrder
            /\ \A g \in 1..Len(trace) :
                (IsGet(trace[g]) /\ trace[g].d.posts # <<>> /\ Len(trace) > g) =>
                    IsSave(trace[g + 1]) /\ trace[g + 1].d.post = trace[g].d.posts[1]
            /\ Persisted

\* the request for page 0 failed, the next page was requested, its post was
\* inserted and the run has returned
C3_Witness ==
    /\ pc = "returned"
    /\ \E i \in 1..Len(trace) :
        /\ IsGet(trace[i])
        /\ ~trace[i].d.ok
        /\ \E j \in (i + 1)..Len(trace) :
            /\ IsSave(trace[j])
            /\ trace[j].d.ok
            /\ trace[j].d.cls = "New"
            /\ trace[j].page > trace[i].page

\* a page that was fetched and shows no post
EmptyPage(e) == IsGet(e) /\ e.d.ok /\ e.d.posts = <<>>

\* C4 as stated: a fetched page without posts stops the run: no page with
\* a higher index is requested afterwards.
C4_EmptyPageStops ==
    \A i \in 1..Len(trace) :
        EmptyPage(trace[i]) => \A j \in (i + 1)..Len(trace) : ~IsGet(trace[j])

\* C4 as amended: a fetched page without posts does not stop the run.  No
\* call of save_or_update_row is made for it, "No posts found" is printed,
\* and the run goes on to the pacing sleep and the request for the next
\* page; it ends there only if the page was the last within the page count.
C4_EmptyPageContinues ==
    \A i \in 1..Len(trace) :
        EmptyPage(trace[i]) =>
            /\ NothingSavedOn(trace[i].page)
            /\ Len(trace) > i
            /\ IsPrint(trace[i + 1], "No posts found")
            /\ Advanced(i + 1, trace[i].page)

\* a fetched page showed no post and a later page was requested and saved
C4_Witness ==
    \E i \in 1..Len(trace) :
        /\ EmptyPage(trace[i])
        /\ \E j \in (i + 1)..Len(trace) :
            /\ IsGet(trace[j])
            /\ trace[j].d.posts # <<>>
            /\ Len(trace) > j

\* a call of save_or_update_row whose statement raised
FailedSave(e) == IsSave(e) /\ ~e.d.ok

\* C5 as stated: a failed INSERT or UPDATE aborts the run: try_func ends
\* with the exception, and no post is saved and no page requested after it.
C5_StorageFaultFatal ==
    \A i \in 1..Len(trace) :
        FailedSave(trace[i]) =>
            /\ pc = "raised"
            /\ \A j \in (i + 1)..Len(trace) : ~IsGet(trace[j]) /\ ~IsSave(trace[j])

\* C5 as amended: a failed INSERT or UPDATE ends the page, not the run.
\* The exception is caught and printed, no further post of that page is
\* saved, try_func does not end with an exception, and the run goes on to
\* the next page, or ends as a run ends after its last page.
C5_StorageFaultSkipsPage ==
    \A i \in 1..Len(trace) :
        FailedSave(trace[i]) =>
            /\ Len(trace) > i
            /\ IsPrint(trace[i + 1], "Error processing page")
            /\ Advanced(i + 1, trace[i].page)
            /\ \A j \in (i + 1)..Len(trace) : IsSave(trace[j]) => trace[j].page > trace[i].page

\* a statement failed on a page with a post still to save, and the next
\* page was requested
C5_Witness ==
    \E i \in 1..Len(trace) :
        /\ FailedSave(trace[i])
        /\ IsGet(trace[i - 1])
        /\ Len(trace[i - 1].d.posts) > 1
        /\ \E j \in (i + 1)..Len(trace) : IsGet(trace[j])

\* C6: the row of an id the program inserted keeps the first_seen of the
\* post that was inserted, in the connection's view and on disk, whatever
\* is saved for that id later, in this run or a later one; and an INSERT
\* that ran in this run stored the first_seen of its post, the time the
\* page was read.
C6_FirstSeenKept ==
    /\ \A id \in DOMAIN first_obs :
        /\ id \in DOMAIN txn
        /\ txn[id].first_seen = adapt_datetime(first_obs[id])
        /\ id \in DOMAIN db => db[id].first_seen = adapt_datetime(first_obs[id])
    /\ \A i \in 1..Len(trace) :
        (IsSave(trace[i]) /\ trace[i].d.cls = "New" /\ trace[i].d.ok) =>
            /\ first_obs[trace[i].d.post.id] = trace[i].d.post.first_seen
            /\ \E g \in 1..(i - 1) :
                /\ IsGet(trace[g])
                /\ trace[g].page = trace[i].page
                /\ \A k \in (g + 1)..(i - 1) : IsSave(trace[k])
                /\ trace[i].d.post.first_seen = trace[g].d.at

\* an UPDATE ran for an id inserted earlier, with a post read at a later
\* time than the one that was inserted
C6_Witness ==
    \E i \in 1..Len(trace) :
        /\ IsSave(trace[i])
        /\ trace[i].d.cls = "Changed"
        /\ trace[i].d.ok
        /\ trace[i].d.post.id \in DOMAIN first_obs
        /\ trace[i].d.post.first_seen > first_obs[trace[i].d.post.id]

\* the step is a call of save_or_update_row whose UPDATE ran
ChangedStep ==
    /\ pc = "rows"
    /\ Len(trace') > Len(trace)
    /\ IsSave(trace'[Len(trace) + 1])
    /\ trace'[Len(trace) + 1].d.cls = "Changed"
    /\ trace'[Len(trace) + 1].d.ok

\* what C7 says of one such step
MinimalWrite ==
    LET e == trace'[Len(trace) + 1]
        post == e.d.post
        id == post.id
        differ == {c \in ColumnSet : post[c] # table_dict[id][c]}
    IN  /\ SeqToSet(e.d.set) = differ \cup {"last_updated"}
        /\ Len(e.d.set) = Cardinality(differ) + 1
        /\ DOMAIN txn' = DOMAIN txn
        /\ DOMAIN table_dict' = DOMAIN table_dict
        /\ \A o \in DOMAIN txn \ {id} : txn'[o] = txn[o]
        /\ \A o \in DOMAIN table_dict \ {id} : table_dict'[o] = table_dict[o]
        /\ DOMAIN txn'[id] = DOMAIN txn[id]
        /\ DOMAIN table_dict'[id] = DOMAIN table_dict[id]
        /\ \A c \in differ :
            /\ txn'[id][c] = bind(c, post[c])
            /\ txn'[id][c] # txn[id][c]
            /\ table_dict'[id][c] = post[c]
        /\ \A c \in DOMAIN txn[id] \ (differ \cup {"last_updated"}) : txn'[id][c] = txn[id][c]
        /\ \A c \in DOMAIN table_dict[id] \ differ : table_dict'[id][c] = table_dict[id][c]
        /\ txn'[id].last_updated = now

\* C7: an UPDATE names exactly the compared columns whose observed value
\* differs from the working copy, plus last_updated; in the table and in
\* table_dict those columns take the observed value, last_updated takes
\* the current time, and every other column of the row (first_seen and
\* read_by_scan included), every other key of the entry and every other
\* id keep their value.
C7_MinimalWrite == [][ChangedStep => MinimalWrite]_vars

\* an UPDATE ran that named some compared columns and not others
C7_Witness ==
    \E i \in 1..Len(trace) :
        /\ IsSave(trace[i])
        /\ trace[i].d.cls = "Changed"
        /\ trace[i].d.ok
        /\ Len(trace[i].d.set) \in 2..Len(columns_post)
        /\ txn[trace[i].d.post.id].last_updated > first_obs[trace[i].d.post.id]

RECURSIVE Observed(_)
\* the posts the requests of `gets` returned, in sweep order
Observed(gets) ==
    IF gets = <<>> THEN <<>> ELSE Head(gets).d.posts \o Observed(Tail(gets))

\* the post of a save event equals the working-copy entry it met in all six
\* compared columns
Identical(e) ==
    /\ e.d.had # <<>>
    /\ \A c \in ColumnSet : e.d.post[c] = e.d.had[1][c]

NoStatementFailed == \A i \in 1..Len(trace) : ~FailedSave(trace[i])

EndedEarly == pc = "returned" /\ IsPrint(trace[Len(trace)], "Exiting at page")

\* C8: in a run in which no statement fails, the posts are saved in sweep
\* order with none left out (page k is requested only after pages 0..k-1,
\* every post read before the current one has been saved, as New or
\* Changed with its statement run); the run ends early exactly at the first
\* post identical to its baseline, right after classifying it, and the
\* page of that post is the last page requested.
C8_OrderingTermination ==
    NoStatementFailed =>
        /\ PagesInOrder
        /\ Len(Saves) <= Len(Observed(Gets))
        /\ \A i \in 1..Len(Saves) :
            /\ Saves[i].d.post = Observed(Gets)[i]
            /\ i < Len(Saves) =>
                /\ ~Identical(Saves[i])
                /\ Saves[i].d.cls \in {"New", "Changed"}
                /\ Saves[i].d.ok
        /\ pc # "rows" /\ ~EndedEarly => Len(Saves) = Len(Observed(Gets))
        /\ pc = "rows" => Len(Saves) + Len(posts) = Len(Observed(Gets))
        /\ (Len(Saves) > 0 /\ Identical(Saves[Len(Saves)])) =>
            /\ EndedEarly
            /\ IsSave(trace[Len(trace) - 1])
            /\ Gets[Len(Gets)].page = Saves[Len(Saves)].page
            /\ post_num = Saves[Len(Saves)].page
        /\ EndedEarly => Len(Saves) > 0 /\ Identical(Saves[Len(Saves)])

\* the second post of a page was the first identical one: the post before
\* it was saved as New or Changed, the run ended there and the next page,
\* within the page count, was not requested
C8_Witness ==
    /\ NoStatementFailed
    /\ EndedEarly
    /\ Len(Saves) >= 2
    /\ Saves[Len(Saves) - 1].page = post_num
    /\ post_num + PageStep < pagecounts[1]

SawUnchanged == \E i \in 1..Len(trace) : IsSave(trace[i]) /\ trace[i].d.cls = "Unchanged"

EndedExhausted == pc = "returned" /\ IsPrint(trace[Len(trace)], "All pages processed")

\* what C9 says of a run that has returned
ExhaustionOrShortcut ==
    pc = "returned" =>
        /\ EndedEarly \/ EndedExhausted
        /\ EndedEarly <=> SawUnchanged
        /\ EndedExhausted <=> ~SawUnchanged
        /\ ~SawUnchanged =>
            /\ PagesInOrder
            /\ Len(Gets) * PageStep = pagecounts[1]
            /\ post_num = pagecounts[1] - PageStep

\* C9: a run in which no post is classified Unchanged requests every page
\* 0, 50, ... below the page count and then returns after printing "All
\* pages processed"; a run that met an Unchanged post returns after
\* printing "Exiting at page" instead, so the last line printed tells the
\* two apart; and every run that was started ends.
C9_Exhaustion == [](ExhaustionOrShortcut) /\ ((pc \notin Terminal) ~> (pc \in Terminal))

\* a run requested both pages of a two-page count, saved a post and
\* returned without meeting an Unchanged post
C9_Witness ==
    /\ EndedExhausted
    /\ Len(Gets) >= 2
    /\ Len(Saves) >= 1
    /\ clean[sweeps]

\* the working copy holds nothing the connection was not given: each of
\* its entries has a row, equal in the six compared columns
CacheWithinStore ==
    \A id \in DOMAIN table_dict :
        /\ id \in DOMAIN txn
        /\ \A c \in ColumnSet : txn[id][c] = bind(c, table_dict[id][c])

\* the step is a call of save_or_update_row whose statement raised
FailedStep ==
    /\ pc = "rows"
    /\ Len(trace') > Len(trace)
    /\ FailedSave(trace'[Len(trace) + 1])

\* C10: table_dict is assigned only after conn.execute returned: a call
\* whose INSERT or UPDATE raises leaves table_dict (and the table) as they
\* were, and at every moment each entry of table_dict has a row in the
\* connection's view with the same six compared columns.
C10_DurableBeforeCache ==
    /\ [](CacheWithinStore)
    /\ [][FailedStep => table_dict' = table_dict /\ txn' = txn]_vars

\* an UPDATE raised and an INSERT raised in the same run; the entry the
\* UPDATE was for is still the one the call met
C10_Witness ==
    \E i, j \in 1..Len(trace) :
        /\ FailedSave(trace[i])
        /\ trace[i].d.cls = "Changed"
        /\ table_dict[trace[i].d.post.id] = trace[i].d.had[1]
        /\ FailedSave(trace[j])
        /\ trace[j].d.cls = "New"
        /\ trace[j].d.post.id \notin DOMAIN table_dict

\* while a BoardStorage exists, the working copy and the connection's view
\* hold the same ids, and for each id the same six compared columns
WorkingCopyAgrees ==
    conn # "none" =>
        /\ DOMAIN table_dict = DOMAIN txn
        /\ \A id \in DOMAIN table_dict :
            \A c \in ColumnSet : txn[id][c] = bind(c, table_dict[id][c])

\* the step is a call of save_or_update_row that returned (its statement,
\* if it had one, ran)
ReturnedStep ==
    /\ pc = "rows"
    /\ Len(trace') > Len(trace)
    /\ IsSave(trace'[Len(trace) + 1])
    /\ trace'[Len(trace) + 1].d.ok

\* after the call the entry of post.id shows the post's six compared
\* columns in the working copy and in the connection's view
ReflectsPost ==
    LET post == trace'[Len(trace) + 1].d.post
    IN  /\ post.id \in DOMAIN table_dict'
        /\ post.id \in DOMAIN txn'
        /\ \A c \in ColumnSet :
            /\ table_dict'[post.id][c] = post[c]
            /\ txn'[post.id][c] = bind(c, post[c])

\* C11: after save_or_update_row(post) returns, as New, Changed or
\* Unchanged, the entry of post.id has the six compared columns of the post
\* in table_dict and in the connection's view; and in every state reached
\* between two calls table_dict and the connection's view hold the same ids
\* with the same six compared columns, so no state shows part of an update.
C11_LatestObservation ==
    /\ [](WorkingCopyAgrees)
    /\ [][ReturnedStep => ReflectsPost]_vars

\* an UPDATE of more than one compared column ran on a row loaded from the
\* table by an earlier run, and the entry shows the post in every column
C11_Witness ==
    \E i \in 1..Len(trace) :
        /\ IsSave(trace[i])
        /\ trace[i].d.cls = "Changed"
        /\ trace[i].d.ok
        /\ Len(trace[i].d.set) >= 3
        /\ trace[i].d.had[1].first_seen = "None"
        /\ conn = "open"
        /\ \A c \in ColumnSet : table_dict[trace[i].d.post.id][c] = trace[i].d.post[c]

\* the step is a call of save_or_update_row that took the KeyError path
\* and executed the INSERT, whether the statement ran or raised
InsertStep ==
    /\ pc = "rows"
    /\ Len(trace') > Len(trace)
    /\ IsSave(trace'[Len(trace) + 1])
    /\ trace'[Len(trace) + 1].d.cls = "New"

\* the INSERT is for an id without a row; if it ran, the table has one row
\* more, the row of that id
InsertsAbsentId ==
    LET e == trace'[Len(trace) + 1]
    IN  /\ e.d.post.id \notin DOMAIN txn
        /\ e.d.post.id \notin DOMAIN db
        /\ e.d.ok => /\ DOMAIN txn' = DOMAIN txn \cup {e.d.post.id}
                     /\ Cardinality(DOMAIN txn') = Cardinality(DOMAIN txn) + 1

\* no step takes a row away, from the file or from the connection's view
NoRowLost ==
    /\ DOMAIN db \subseteq DOMAIN db'
    /\ DOMAIN txn \subseteq DOMAIN txn'

\* the rows of the table are those of the ids inserted so far, one each
OneRowPerInsertedId ==
    /\ DOMAIN txn = DOMAIN first_obs
    /\ DOMAIN db \subseteq DOMAIN txn

\* C12: the table holds one row per id that was inserted; an INSERT is
\* executed only for an id that has no row (the id is absent from
\* table_dict, which holds the ids of the table), so no second INSERT of an
\* id is attempted; and the ids of the table never become fewer, within a
\* run or from one run to the next.
C12_OneEntryPerId ==
    /\ [](OneRowPerInsertedId)
    /\ [][InsertStep => InsertsAbsentId]_vars
    /\ [][NoRowLost]_vars

\* a later run met an id an earlier run had inserted, compared it with the
\* loaded entry, and inserted another id; both rows are on disk
C12_Witness ==
    /\ pc = "returned"
    /\ Cardinality(DOMAIN db) = 2
    /\ \E i, j \in 1..Len(trace) :
        /\ IsSave(trace[i])
        /\ trace[i].d.cls = "New"
        /\ trace[i].d.ok
        /\ IsSave(trace[j])
        /\ trace[j].d.cls # "New"
        /\ trace[j].d.had[1].first_seen = "None"

\* the run ended before BoardStorage was entered: get_page_count raised
CountRaised == Len(trace) = 1 /\ trace[1].ev = "count" /\ trace[1].d.result = "raise"

Parseable(rows) == SelectSeq(rows, LAMBDA r : r.kind = "thread")

\* the posts of a fetched page are its readable rows, one post each, in
\* the order of the rows; the other rows left nothing
OnePostPerReadableRow(e) ==
    /\ Len(e.d.posts) = Len(Parseable(e.d.rows))
    /\ \A k \in 1..Len(e.d.posts) :
        /\ e.d.posts[k].id = Parseable(e.d.rows)[k].id
        /\ e.d.posts[k].title = Parseable(e.d.rows)[k].title
        /\ e.d.posts[k].replies = Parseable(e.d.rows)[k].replies

\* event g of the trace being a request: its posts are saved one after
\* another in their order, each as long as the saves before it ran and
\* none of them was Unchanged, and the posts not yet saved are waiting
InPageOrder(g) ==
    LET found == trace[g].d.posts
        Went(k) == \A h \in 1..(k - 1) :
                      /\ Len(trace) >= g + h
                      /\ IsSave(trace[g + h])
                      /\ trace[g + h].d.ok
                      /\ trace[g + h].d.cls # "Unchanged"
    IN  \A k \in 1..Len(found) :
            Went(k) =>
                /\ Len(trace) >= g + k =>
                    /\ IsSave(trace[g + k])
                    /\ trace[g + k].page = trace[g].page
                    /\ trace[g + k].d.post = found[k]
                /\ Len(trace) = g + k - 1 =>
                    /\ pc = "rows"
                    /\ posts = SubSeq(found, k, Len(found))

\* C14: a row that does not parse (a pinned thread among them) is skipped
\* and leaves no post; the other rows of the page each give their post, in
\* the order of the rows, and these posts are saved in that order; the run
\* does not end with an exception because of the row.
C14_RowScopedParseFault ==
    \A g \in 1..Len(trace) :
        (IsGet(trace[g]) /\ trace[g].d.ok) =>
            /\ OnePostPerReadableRow(trace[g])
            /\ InPageOrder(g)
            /\ pc # "raised"

\* a page began with a pinned row; the thread after it was read and saved
C14_Witness ==
    \E g \in 1..Len(trace) :
        /\ IsGet(trace[g])
        /\ Len(trace[g].d.rows) = 2
        /\ trace[g].d.rows[1] = Pinned
        /\ Len(trace[g].d.posts) = 1
        /\ Len(trace) > g
        /\ IsSave(trace[g + 1])
        /\ trace[g + 1].d.ok
        /\ trace[g + 1].d.post.id = trace[g].d.rows[2].id

\* the call of this step returned True: try_func printed the exit message
\* and returned (lines 221-223)
ReturnedTrue ==
    /\ pc' = "returned"
    /\ IsPrint(trace'[Len(trace')], "Exiting at page")

\* what C15 says of a call that returned
ExactReturn ==
    LET e == trace'[Len(trace) + 1]
        id == e.d.post.id
        same == /\ id \in DOMAIN table_dict
                /\ \A c \in ColumnSet : e.d.post[c] = table_dict[id][c]
    IN  /\ ReturnedTrue <=> same
        /\ same =>
            /\ e.d.set = <<>>
            /\ txn' = txn
            /\ table_dict' = table_dict
        /\ ~same =>
            /\ e.d.set # <<>>
            /\ txn' # txn
            /\ ~ReturnedTrue
            /\ pc' # "returned" => Len(trace') = Len(trace) + 1

\* C15: save_or_update_row returns True exactly when table_dict holds the
\* id and the six compared columns of the post equal the entry's; the call
\* then executes no statement and leaves the connection's view (last_updated
\* with it) and table_dict as they were.  A call that inserted or updated
\* returns False: the table changed and the run does not take the exit of
\* line 223.
C15_UnchangedWriteFree == [][ReturnedStep => ExactReturn]_vars

\* a run that had inserted one post and updated another met an identical
\* post: the row's last_updated is older than the time of the call
C15_Witness ==
    /\ EndedEarly
    /\ \E i, j \in 1..Len(trace) :
        /\ IsSave(trace[i]) /\ trace[i].d.cls = "Changed" /\ trace[i].d.ok
        /\ IsSave(trace[j]) /\ trace[j].d.cls = "Unchanged"
        /\ txn[trace[j].d.post.id].last_updated < trace[j].d.post.first_seen

\* a save belongs to the page requested last before it
SavesFollowTheirRequest ==
    \A i \in 1..Len(trace) :
        IsSave(trace[i]) =>
            \E g \in 1..(i - 1) :
                /\ IsGet(trace[g])
                /\ trace[g].page = trace[i].page
                /\ \A k \in (g + 1)..(i - 1) : IsSave(trace[k])

\* when a page is requested the page before it is done with: nothing of
\* it waits to be saved
RequestAfterPageEnded ==
    \A g \in 1..Len(trace) :
        (IsGet(trace[g]) /\ g > 1) =>
            /\ trace[g - 1].ev \in {"count", "sleep"}
            /\ trace[g - 1].ev = "count" <=> trace[g].page = 0

\* C16: within a run the pages are requested in increasing order from
\* page 0, each once and none left out; the posts of a page are saved in
\* the order of the page's rows; every save belongs to the page requested
\* last; and the posts still waiting are those of the current page only,
\* so no post of a later page is saved before the page before it is over.
C16_SequentialSweep ==
    /\ PagesInOrder
    /\ \A g \in 1..Len(Gets) : g > 1 => Gets[g].page > Gets[g - 1].page
    /\ SavesFollowTheirRequest
    /\ RequestAfterPageEnded
    /\ \A g \in 1..Len(trace) :
        IsGet(trace[g]) =>
            /\ InPageOrder(g)
            /\ trace[g].d.ok => OnePostPerReadableRow(trace[g])
    /\ pc \notin {"rows"} => posts = <<>>
    /\ pc \in {"fetch", "rows", "sleep"} => post_num = Len(Gets) * PageStep
                                             - (IF pc = "rows" THEN PageStep ELSE 0)

\* the two posts of page 0 were saved in the order of its rows, and page 1
\* was requested after the second of them
C16_Witness ==
    /\ Len(Saves) = 2
    /\ Saves[1].page = 0
    /\ Saves[2].page = 0
    /\ Len(Gets) = 2
    /\ Gets[2].page = PageStep
    /\ Gets[1].d.posts = <<Saves[1].d.post, Saves[2].d.post>>
    /\ Gets[1].d.rows[1].id = Saves[1].d.post.id
    /\ Gets[1].d.rows[2].id = Saves[2].d.post.id

IsSleep(e) == e.ev = "sleep"

Sleeps == SelectSeq(trace, IsSleep)

\* C17: the request for page 0 is made without a sleep before it; every
\* other request comes right after one sleep of 3 seconds, made for that
\* page after the page before it was left, whether that page was saved,
\* was empty, could not be fetched or met a failed statement; so a run
\* has slept once between any two consecutive requests and never else.
C17_Pacing ==
    /\ \A g \in 1..Len(trace) :
        IsGet(trace[g]) =>
            /\ trace[g].page = 0 =>
                /\ g = 2
                /\ trace[1].ev = "count"
            /\ trace[g].page > 0 =>
                /\ IsSleep(trace[g - 1])
                /\ trace[g - 1].page = trace[g].page
                /\ trace[g - 1].d.secs = 3
                /\ ~IsSleep(trace[g - 2])
                /\ \E h \in 1..(g - 2) :
                    /\ IsGet(trace[h])
                    /\ trace[h].page = trace[g].page - PageStep
                    /\ trace[g].d.at > trace[h].d.at
    /\ \A i \in 1..Len(trace) :
        IsSleep(trace[i]) =>
            /\ i > 2
            /\ trace[i].page > 0
            /\ Len(trace) > i => IsGet(trace[i + 1])
            /\ Len(trace) = i => pc = "fetch"
    /\ pc = "sleep" => Len(Sleeps) = Len(Gets) - 1
    /\ pc \in {"fetch", "rows"} \cup Terminal /\ Len(Gets) > 0 =>
            Len(Sleeps) = Len(Gets) - (IF pc = "fetch" THEN 0 ELSE 1)

\* the INSERT for page 0 raised, its page was given up, and page 1 was
\* requested after the sleep
C17_Witness ==
    \E i \in 1..Len(trace) :
        /\ FailedSave(trace[i])
        /\ trace[i].page = 0
        /\ Len(trace) >= i + 3
        /\ IsSleep(trace[i + 2])
        /\ IsGet(trace[i + 3])
        /\ trace[i + 3].page = PageStep

RECURSIVE PagesFrom(_, _, _, _)
\* the posts the pages at offsets p, p + 50, ... below `bound` show
PagesFrom(b, p, bound, t) ==
    IF p >= bound THEN <<>>
    ELSE scrape_rows(PageRows(b, p), t) \o PagesFrom(b, p + PageStep, bound, t)

\* the listing within the page count as a run that stands at page `at`
\* knows it from requests `gets`: the posts it was shown, then the posts of
\* the pages it has not requested
ListingOf(gets, b, at, bound, t) ==
    Observed(gets) \o PagesFrom(b, at + PageStep, bound, t)

NoIdTwice(l) == \A i, j \in 1..Len(l) : l[i].id = l[j].id => i = j

\* post r equals the entry of its id in `dict` in the six compared columns
IdenticalTo(dict, r) ==
    /\ r.id \in DOMAIN dict
    /\ \A c \in ColumnSet : r[c] = dict[r.id][c]

\* recency order: no post that is new or differs comes after one that is
\* identical to its entry
ChangedFirst(l, dict) ==
    \A i, j \in 1..Len(l) : (i < j /\ IdenticalTo(dict, l[i])) => IdenticalTo(dict, l[j])

\* every post of l has its row, equal in the six compared columns
Captured(l, table) ==
    \A i \in 1..Len(l) :
        /\ l[i].id \in DOMAIN table
        /\ \A c \in ColumnSet : table[l[i].id][c] = bind(c, l[i][c])

\* the step ends a run by a return
ReturningStep == pc \notin Terminal /\ pc' = "returned"

\* what C18 says of such a step; db is the table as the run found it
CompleteIfOrdered ==
    LET l == ListingOf(SelectSeq(trace', IsGet), board, post_num', pagecounts'[1], now)
    IN  (/\ clean'[sweeps]
         /\ NoIdTwice(l)
         /\ ChangedFirst(l, table_to_dict(db))) =>
            /\ Captured(l, db')
            /\ \A i \in 1..Len(l) : IdenticalTo(table_dict', l[i])

\* C18: a run without a failed request or statement, over a listing
\* (the pages below the page count) that shows no id twice and in which
\* every post that is new or differs from the table as the run found it
\* comes before every post identical to its row, leaves on its return a
\* committed row for every post of the listing, equal to the post in the
\* six compared columns.
C18_Completeness == [][ReturningStep => CompleteIfOrdered]_vars

\* a later run updated one post, stopped at the identical post behind it
\* and returned; both posts of the listing have their rows
C18_Witness ==
    /\ EndedEarly
    /\ clean[sweeps]
    /\ sweeps = 2
    /\ Len(Saves) = 2
    /\ Saves[1].d.cls = "Changed"
    /\ Len(ListingOf(Gets, board, post_num, pagecounts[1], now)) >= 2
    /\ NoIdTwice(ListingOf(Gets, board, post_num, pagecounts[1], now))
    /\ Captured(ListingOf(Gets, board, post_num, pagecounts[1], now), db)

\* save i ran its statement and is the latest such save for the id of
\* save j before j
LatestWriteBefore(i, j) ==
    /\ i < j
    /\ IsSave(trace[i])
    /\ IsSave(trace[j])
    /\ trace[i].d.ok
    /\ trace[i].d.cls # "Unchanged"
    /\ trace[i].d.post.id = trace[j].d.post.id
    /\ \A k \in (i + 1)..(j - 1) :
        (IsSave(trace[k]) /\ trace[k].d.ok) => trace[k].d.post.id # trace[j].d.post.id

\* C19: a call of save_or_update_row compares the post with table_dict as
\* the earlier calls of the same run left it: the entry it meets has the six
\* compared columns of the last post written for that id in this run.  A
\* post met again in the run with the same six values is therefore
\* Unchanged, executes no statement and ends the run, although its first
\* save was New or Changed.
C19_ReadsOwnWrites ==
    \A i, j \in 1..Len(trace) :
        LatestWriteBefore(i, j) =>
            /\ trace[j].d.had # <<>>
            /\ \A c \in ColumnSet : trace[j].d.had[1][c] = trace[i].d.post[c]
            /\ (\A c \in ColumnSet : trace[j].d.post[c] = trace[i].d.post[c]) =>
                /\ trace[j].d.cls = "Unchanged"
                /\ trace[j].d.set = <<>>
                /\ EndedEarly
                /\ Len(trace) = j + 1

\* a post inserted from page 0 was shown again on page 1, the index having
\* moved by one row in between, and ended the run there
C19_Witness ==
    \E i, j \in 1..Len(trace) :
        /\ LatestWriteBefore(i, j)
        /\ trace[i].d.cls = "New"
        /\ trace[i].page = 0
        /\ trace[j].page = PageStep
        /\ trace[j].d.cls = "Unchanged"
        /\ EndedEarly

\* get_page_count returned None: the landing page was not fetched
NoPageCount == Len(trace) >= 1 /\ trace[1].ev = "count" /\ trace[1].d.result = "None"

\* the step in which get_page_count returns None
NoPageCountStep == pc = "count" /\ trace' = <<Ev("count", 0, [result |-> "None"])>>

\* nothing follows the None: the run has ended with the exception and has
\* requested and saved nothing
NoPageCountEndsRun ==
    NoPageCount =>
        /\ pc = "raised"
        /\ Len(trace) = 1
        /\ pagecounts = <<>>
        /\ posts = <<>>
        /\ ~clean[sweeps]
        /\ db = txn

\* the step leaves the table as it was and both with-blocks closed
TableAsFound ==
    /\ pc' = "raised"
    /\ db' = db
    /\ txn' = db
    /\ conn' = "closed"
    /\ session' = "closed"

\* C20: a run whose get_page_count returns None, the landing page not
\* having been fetched, requests no index page and calls
\* save_or_update_row for no post; try_func ends with the exception of
\* range(), not with a return, neither exit message printed; and the table
\* is row for row what it was when the run began, on disk and as the closed
\* connection held it.
C20_PageCountFailure ==
    /\ [](NoPageCountEndsRun)
    /\ [][NoPageCountStep => TableAsFound]_vars

\* the second run found no page count: both rows of the first run are on
\* disk as they were, the run requested nothing and ended with the error
C20_Witness ==
    /\ NoPageCount
    /\ sweeps = 2
    /\ pc = "raised"
    /\ Cardinality(DOMAIN db) = 2
    /\ table_dict = table_to_dict(db)
    /\ Gets = <<>>
    /\ Saves = <<>>

====
